---- MODULE Spec2Model ----
(***************************************************************************)
(* State-machine model of the chat assistant's decision layer:             *)
(*   - utils/query_router.py : QueryRouter (pattern-count classifier and   *)
(*     routing policy);                                                    *)
(*   - utils/genie_client.py : GenieMCPClient (tool-call request, the      *)
(*     conversation tracker, the poll loop and the response normalizer).   *)
(*                                                                         *)
(* Conventions.  A Python str is the sequence of its tokens: maximal runs  *)
(* of word characters, single whitespace characters (" ") and, in the      *)
(* client, the symbols of JSON and of messages.  A float confidence c is   *)
(* the integer 100*c (0.95 is 95).                                         *)
(***************************************************************************)
EXTENDS Integers, Sequences, FiniteSets, TLC

\* None: no str of the model is this one.
None == <<"<None>">>

Min(a, b) == IF a <= b THEN a ELSE b

(***************************************************************************)
(*                      utils/query_router.py                              *)
(***************************************************************************)

\* A compiled pattern  \bHEAD\b  or  \bHEAD\b.*\b(ALT|...)  : head is the set
\* of phrases HEAD stands for (x[s]? is two phrases, a.?b three), tail the
\* alternatives after ".*" ({} when the pattern has none), open says that the
\* alternatives carry no closing \b, so that they match a prefix of a word.
P(h, t, o) == [head |-> h, tail |-> t, open |-> o]

DATA_QUERY_PATTERNS ==
  << P({<<"how", "many">>}, {}, FALSE),
     P({<<"show", "me">>}, {<<"data">>, <<"record">>, <<"client">>, <<"metric">>, <<"table">>, <<"result">>}, TRUE),
     P({<<"what", "data">>}, {}, FALSE),
     P({<<"query">>}, {}, FALSE),
     P({<<"table">>, <<"tables">>}, {}, FALSE),
     P({<<"client">>, <<"clients">>}, {}, FALSE),
     P({<<"metric">>, <<"metrics">>}, {}, FALSE),
     P({<<"count">>}, {<<"record">>, <<"client">>, <<"row">>, <<"entry">>, <<"item">>}, TRUE),
     P({<<"list">>}, {<<"all">>, <<"client">>, <<"record">>, <<"data">>, <<"table">>}, TRUE),
     P({<<"find">>}, {<<"record">>, <<"client">>, <<"data">>, <<"entry">>}, TRUE),
     P({<<"search">>}, {<<"database">>, <<"record">>, <<"client">>, <<"data">>}, TRUE),
     P({<<"database">>}, {}, FALSE),
     P({<<"record">>, <<"records">>}, {}, FALSE),
     P({<<"housing", "risk">>}, {}, FALSE),
     P({<<"disability">>}, {}, FALSE),
     P({<<"mental", "health">>}, {}, FALSE),
     P({<<"demographic">>, <<"demographics">>}, {}, FALSE),
     P({<<"measureresponse">>, <<"measureresponses">>}, {}, FALSE),
     P({<<"outcome">>, <<"outcomes">>}, {}, FALSE),
     P({<<"program", "evaluation">>}, {}, FALSE),
     P({<<"average">>}, {<<"score">>, <<"value">>, <<"count">>, <<"number">>}, TRUE),
     P({<<"total">>}, {<<"count">>, <<"number">>, <<"client">>, <<"record">>}, TRUE),
     P({<<"sum">>}, {}, FALSE),
     P({<<"percentage">>}, {}, FALSE),
     P({<<"distribution">>}, {}, FALSE),
     P({<<"breakdown">>}, {}, FALSE),
     P({<<"analyze">>}, {<<"data">>, <<"record">>, <<"client">>}, TRUE),
     P({<<"analysis">>}, {<<"data">>, <<"record">>, <<"client">>}, TRUE),
     P({<<"statistic">>, <<"statistics">>}, {}, FALSE),
     P({<<"trend">>, <<"trends">>}, {<<"data">>, <<"client">>, <<"record">>}, TRUE),
     P({<<"compare">>}, {<<"data">>, <<"client">>, <<"record">>, <<"metric">>}, TRUE),
     P({<<"comparison">>}, {<<"data">>, <<"client">>, <<"record">>}, TRUE),
     P({<<"filter">>}, {<<"data">>, <<"record">>, <<"client">>, <<"by">>}, TRUE),
     P({<<"group", "by">>}, {}, FALSE),
     P({<<"sort">>}, {<<"by">>, <<"data">>, <<"record">>}, TRUE),
     P({<<"order", "by">>}, {}, FALSE),
     P({<<"select">>}, {<<"from">>, <<"data">>, <<"record">>}, TRUE),
     P({<<"where">>}, {<<"is">>, <<"are">>}, TRUE),  \* alternatives = > < need a non-letter character
     P({<<"from">>}, {<<"table">>}, FALSE),
     P({<<"aifinal">>, <<"ai_final">>, <<"ai", "final">>}, {}, FALSE),
     P({<<"cleaned">>}, {}, FALSE),
     P({<<"longitudinal">>}, {}, FALSE),
     P({<<"singlerecord">>, <<"single_record">>, <<"single", "record">>}, {}, FALSE),
     P({<<"support", "need">>, <<"support", "needs">>}, {}, FALSE),
     P({<<"risk", "level">>, <<"risk", "levels">>}, {}, FALSE),
     P({<<"assessment">>, <<"assessments">>}, {}, FALSE) >>

GENERAL_QUERY_INDICATORS ==
  << P({<<"explain">>}, {}, FALSE),
     P({<<"what", "is">>}, {<<"machine", "learning">>, <<"ai">>, <<"artificial", "intelligence">>, <<"programming">>, <<"coding">>, <<"concept">>}, FALSE),
     P({<<"how", "does">>}, {<<"work">>}, FALSE),
     P({<<"write">>}, {<<"code">>, <<"script">>, <<"program">>, <<"story">>, <<"poem">>, <<"essay">>}, FALSE),
     P({<<"create">>}, {<<"story">>, <<"poem">>, <<"essay">>, <<"content">>}, FALSE),
     P({<<"tell", "me", "about">>}, {}, FALSE),
     P({<<"define">>}, {}, FALSE),
     P({<<"describe">>}, {<<"concept">>, <<"how">>, <<"what">>}, FALSE),
     P({<<"help", "me", "understand">>}, {}, FALSE),
     P({<<"what", "are", "the", "benefits">>}, {}, FALSE),
     P({<<"what", "are", "the", "advantages">>}, {}, FALSE),
     P({<<"what", "are", "the", "disadvantages">>}, {}, FALSE),
     P({<<"pros", "and", "cons">>}, {}, FALSE),
     P({<<"opinion">>}, {}, FALSE),
     P({<<"think", "about">>}, {}, FALSE),
     P({<<"suggestion">>, <<"suggestions">>}, {}, FALSE),
     P({<<"recommend">>}, {}, FALSE),
     P({<<"advice">>}, {}, FALSE),
     P({<<"tips">>}, {}, FALSE),
     P({<<"best", "practice">>, <<"best", "practices">>}, {}, FALSE),
     P({<<"how", "to">>}, {<<"learn">>, <<"improve">>, <<"start">>, <<"begin">>}, FALSE),
     P({<<"tutorial">>}, {}, FALSE),
     P({<<"guide">>}, {}, FALSE),
     P({<<"benefits", "of">>}, {}, FALSE),
     P({<<"advantages", "of">>}, {}, FALSE),
     P({<<"disadvantages", "of">>}, {}, FALSE),
     P({<<"using">>}, {<<"ai">>, <<"machine", "learning">>, <<"python">>, <<"programming">>}, FALSE) >>

\* class QueryType
DATA == "data"
GENERAL == "general"

\* str.lower() on one token: the tokens with upper-case letters among the
\* queries, status tokens and service errors of the model; no pattern, status
\* or substring the code compares with is a token the table leaves out.
LowerToken(tok) ==
  CASE tok = "How"     -> "how"
    [] tok = "Clients" -> "clients"
    [] tok = "Explain" -> "explain"
    [] tok = "What"    -> "what"
    [] tok = "AI"      -> "ai"
    [] tok = "SHOW"    -> "show"
    [] tok = "COMPLETED" -> "completed"
    [] tok = "EXECUTING" -> "executing"
    [] tok = "FAILED"  -> "failed"
    [] tok = "Quota"   -> "quota"
    [] tok = "Conversation" -> "conversation"
    [] tok = "NOT"     -> "not"
    [] tok = "FOUND"   -> "found"
    [] OTHER           -> tok

lower(q) == [i \in 1..Len(q) |-> LowerToken(q[i])]

\* str.strip(): leading and trailing whitespace removed.
RECURSIVE lstrip(_)
lstrip(q) == IF q # <<>> /\ Head(q) = " " THEN lstrip(Tail(q)) ELSE q

RECURSIVE rstrip(_)
rstrip(q) ==
  IF q # <<>> /\ q[Len(q)] = " " THEN rstrip(SubSeq(q, 1, Len(q) - 1)) ELSE q

strip(q) == rstrip(lstrip(q))

\* The pattern alternatives that are proper prefixes of a word of the model's
\* vocabulary: an alternative without a closing \b matches such a word too.
ProperPrefixes(tok) ==
  CASE tok = "clients"  -> {"client"}
    [] tok = "records"  -> {"record"}
    [] tok = "tables"   -> {"table"}
    [] tok = "metrics"  -> {"metric"}
    [] tok = "database" -> {"data"}
    [] tok = "results"  -> {"result"}
    [] tok = "rows"     -> {"row"}
    [] tok = "issues"   -> {"is"}
    [] OTHER            -> {}

WordMatches(tok, w, open) == tok = w \/ (open /\ w \in ProperPrefixes(tok))

\* Phrase ph (words joined by one space) is matched from token i of q, its
\* first word starting and, unless open, its last word ending at a word
\* boundary.
PhraseAt(q, i, ph, open) ==
  LET n == Len(ph)
      last == i + 2 * (n - 1)
  IN  /\ last <= Len(q)
      /\ \A k \in 1..(n - 1) :
            q[i + 2 * (k - 1)] = ph[k] /\ q[i + 2 * (k - 1) + 1] = " "
      /\ WordMatches(q[last], ph[n], open)

\* re.Pattern.match in place of search: the head at the start of q only.
match(p, q) ==
  \E h \in p.head :
     /\ PhraseAt(q, 1, h, FALSE)
     /\ \/ p.tail = {}
        \/ \E j \in (2 * (Len(h) - 1) + 2)..Len(q) : \E a \in p.tail :
              PhraseAt(q, j, a, p.open)

\* re.Pattern.search: the head somewhere and, when the pattern has a tail, one
\* of its alternatives at a later word (".*" spans the characters between).
search(p, q) ==
  \E i \in 1..Len(q) : \E h \in p.head :
     /\ PhraseAt(q, i, h, FALSE)
     /\ \/ p.tail = {}
        \/ \E j \in (i + 2 * (Len(h) - 1) + 1)..Len(q) : \E a \in p.tail :
              PhraseAt(q, j, a, p.open)

\* sum(1 for p in patterns if p.search(query_lower))
CountMatches(patterns, q) ==
  Cardinality({k \in DOMAIN patterns : search(patterns[k], q)})

\* The rules with the cap 0.95 of the one-sided counts left out.
ClassifyRulesUncapped(data_matches, general_matches) ==
  IF data_matches > 0 /\ general_matches = 0
    THEN [type |-> DATA, confidence |-> 50 + data_matches * 10]
  ELSE IF general_matches > 0 /\ data_matches = 0
    THEN [type |-> GENERAL, confidence |-> 50 + general_matches * 10]
  ELSE IF data_matches > general_matches
    THEN [type |-> DATA,
          confidence |-> Min(50 + (data_matches - general_matches) * 5, 85)]
  ELSE IF general_matches > data_matches
    THEN [type |-> GENERAL,
          confidence |-> Min(50 + (general_matches - data_matches) * 5, 85)]
  ELSE [type |-> GENERAL, confidence |-> 50]

\* The rules with the cap 0.85 of the mixed counts left out.
ClassifyRulesNoMixedCap(data_matches, general_matches) ==
  IF data_matches > 0 /\ general_matches = 0
    THEN [type |-> DATA, confidence |-> Min(50 + data_matches * 10, 95)]
  ELSE IF general_matches > 0 /\ data_matches = 0
    THEN [type |-> GENERAL, confidence |-> Min(50 + general_matches * 10, 95)]
  ELSE IF data_matches > general_matches
    THEN [type |-> DATA,
          confidence |-> 50 + (data_matches - general_matches) * 5]
  ELSE IF general_matches > data_matches
    THEN [type |-> GENERAL,
          confidence |-> 50 + (general_matches - data_matches) * 5]
  ELSE [type |-> GENERAL, confidence |-> 50]

\* Lines 124-140: the confidence rules of classify_query, on the two match
\* counts; a confidence is a number of hundredths.
ClassifyRules(data_matches, general_matches) ==
  IF data_matches > 0 /\ general_matches = 0
    THEN [type |-> DATA, confidence |-> Min(50 + data_matches * 10, 95)]
  ELSE IF general_matches > 0 /\ data_matches = 0
    THEN [type |-> GENERAL, confidence |-> Min(50 + general_matches * 10, 95)]
  ELSE IF data_matches > general_matches
    THEN [type |-> DATA,
          confidence |-> Min(50 + (data_matches - general_matches) * 5, 85)]
  ELSE IF general_matches > data_matches
    THEN [type |-> GENERAL,
          confidence |-> Min(50 + (general_matches - data_matches) * 5, 85)]
  ELSE [type |-> GENERAL, confidence |-> 50]

\* QueryRouter.classify_query, with the two counts it computed on the way.
classify_query(query) ==
  LET query_lower == strip(lower(query))
      data_matches == CountMatches(DATA_QUERY_PATTERNS, query_lower)
      general_matches == CountMatches(GENERAL_QUERY_INDICATORS, query_lower)
      r == ClassifyRules(data_matches, general_matches)
  IN  [type |-> r.type, confidence |-> r.confidence,
       data_matches |-> data_matches, general_matches |-> general_matches]

\* The routing decision with a threshold of 0.7 in place of 0.5.
should_route_to_genie_strict(query) ==
  LET c == classify_query(query)
  IN  c.type = DATA /\ c.confidence >= 70

\* QueryRouter.should_route_to_genie
should_route_to_genie(query) ==
  LET c == classify_query(query)
  IN  c.type = DATA /\ c.confidence >= 50

(***************************************************************************)
(* The queries the classifier is run on.                                   *)
(***************************************************************************)

\* The words of a query joined by single spaces.
RECURSIVE Join(_)
Join(words) ==
  IF Len(words) <= 1 THEN words
  ELSE <<Head(words), " ">> \o Join(Tail(words))

\* Words that match exactly one data pattern, and exactly one general pattern.
DataKeywords ==
  << "query", "table", "clients", "metric", "database", "records",
     "disability", "sum", "percentage", "distribution", "breakdown",
     "cleaned", "longitudinal", "outcomes" >>

GeneralKeywords ==
  << "explain", "define", "opinion", "recommend", "advice", "tips",
     "tutorial", "guide", "suggestions" >>

MaxDataKw == 10
MaxGeneralKw == 8

KwQuery(i, j) ==
  Join(SubSeq(DataKeywords, 1, i) \o SubSeq(GeneralKeywords, 1, j))

HousingQuery ==
  Join(<<"how", "many", "clients", "have", "a", "housing", "risk", "flag">>)

NeuralQuery == Join(<<"explain", "how", "neural", "networks", "work">>)

SampleQueries ==
  { HousingQuery, NeuralQuery, <<>>,
    <<" ", "How", " ", "many", " ", "Clients", " ">>,
    <<"how", " ", " ", "many">>,
    Join(<<"SHOW", "me", "the", "database">>),
    Join(<<"What", "is", "AI">>),
    Join(<<"explain", "the", "client", "records">>),
    Join(<<"list", "clients">>),
    Join(<<"where", "are", "the", "issues">>),
    Join(<<"how", "does", "a", "query", "work">>),
    Join(<<"single", "record", "from", "the", "ai_final", "table">>) }

Queries ==
  SampleQueries \cup
  { KwQuery(i, j) : i \in 0..MaxDataKw, j \in 0..MaxGeneralKw }

VARIABLES
  rquery,    \* the query handed to the router
  rstage,    \* "input", "classified" or "routed"
  rresult,   \* what classify_query returned for rquery
  rroute     \* what should_route_to_genie returned for rquery

rvars == <<rquery, rstage, rresult, rroute>>

NoResult ==
  [type |-> None, confidence |-> 0, data_matches |-> 0, general_matches |-> 0]

RouterIdle ==
  /\ rquery = <<>>
  /\ rstage = "idle"
  /\ rresult = NoResult
  /\ rroute = FALSE

RouterInit ==
  /\ rquery \in Queries
  /\ rstage = "input"
  /\ rresult = NoResult
  /\ rroute = FALSE

\* A caller classifies the query.
Classify ==
  /\ rstage = "input"
  /\ rresult' = classify_query(rquery)
  /\ rstage' = "classified"
  /\ UNCHANGED <<rquery, rroute>>

\* A caller asks for the routing decision of the query.
Route ==
  /\ rstage = "classified"
  /\ rroute' = should_route_to_genie(rquery)
  /\ rstage' = "routed"
  /\ UNCHANGED <<rquery, rresult>>

\* The next query arrives.
NextQuery ==
  /\ rstage = "routed"
  /\ rquery' \in Queries
  /\ rstage' = "input"
  /\ rresult' = NoResult
  /\ rroute' = FALSE

(***************************************************************************)
(*                      utils/genie_client.py                              *)
(*                                                                         *)
(* A Python str is, as a query is, the sequence of its tokens: T("abc")    *)
(* is a str of one token, <<>> the empty str.  JSON values are the values  *)
(* json.loads and httpx.Response.json produce.  The strs of the model hold *)
(* no character that JSON escapes.                                         *)
(***************************************************************************)

T(tok) == <<tok>>

JNull == [ty |-> "null"]
JStr(s) == [ty |-> "str", s |-> s]
JNum(lit) == [ty |-> "num", lit |-> lit]
JList(items) == [ty |-> "list", items |-> items]
JDict(keys, vals) == [ty |-> "dict", keys |-> keys, vals |-> vals]

\* A key that a dict does not hold, and a text that does not decode.
Absent == [ty |-> "absent"]
Undecodable == [ty |-> "undecodable"]

\* A dict of the keys whose value is given (not Absent), in order.
RECURSIVE MkDict(_, _)
MkDict(keys, vals) ==
  IF keys = <<>> THEN JDict(<<>>, <<>>)
  ELSE LET rest == MkDict(Tail(keys), Tail(vals))
       IN  IF Head(vals).ty = "absent" THEN rest
           ELSE JDict(<<Head(keys)>> \o rest.keys, <<Head(vals)>> \o rest.vals)

\* key in d, and d.get(key, default), for a dict d.
HasKey(d, key) == \E i \in DOMAIN d.keys : d.keys[i] = key

DictGet(d, key, default) ==
  IF HasKey(d, key)
    THEN d.vals[CHOOSE i \in DOMAIN d.keys : d.keys[i] = key]
    ELSE default

\* The Python value of a JSON string or null, as the model holds it.
PyStr(v) == IF v.ty = "str" THEN v.s ELSE None

\* bool(v): None, "", 0, [] and {} are false.
Truthy(v) ==
  CASE v.ty = "null" -> FALSE
    [] v.ty = "absent" -> FALSE
    [] v.ty = "str"  -> v.s # <<>>
    [] v.ty = "num"  -> v.lit # "0"
    [] v.ty = "list" -> v.items # <<>>
    [] v.ty = "dict" -> v.keys # <<>>

Quote == "\""
NumberTokens == {"0", "42", "500"}

RECURSIVE Spaces(_)
Spaces(n) == IF n = 0 THEN <<>> ELSE <<" ">> \o Spaces(n - 1)

\* json.dumps(v) and json.dumps(v, indent=2): depth < 0 is the compact form.
RECURSIVE JsonDumpsAt(_, _)
RECURSIVE DumpItems(_, _, _, _)
DumpItems(keys, vals, depth, sep) ==
  IF vals = <<>> THEN <<>>
  ELSE LET key == IF keys = <<>> THEN <<>>
                  ELSE <<Quote, Head(keys), Quote, ":", " ">>
           rest == IF keys = <<>> THEN <<>> ELSE Tail(keys)
       IN  key \o JsonDumpsAt(Head(vals), depth)
               \o (IF Len(vals) = 1 THEN <<>>
                   ELSE sep \o DumpItems(rest, Tail(vals), depth, sep))

JsonDumpsAt(v, depth) ==
  LET open == IF depth < 0 THEN <<>> ELSE <<"\n">> \o Spaces(2 * (depth + 1))
      close == IF depth < 0 THEN <<>> ELSE <<"\n">> \o Spaces(2 * depth)
      sep == IF depth < 0 THEN <<",", " ">> ELSE <<",">> \o open
      inner == IF depth < 0 THEN depth ELSE depth + 1
  IN  CASE v.ty = "null" -> <<"null">>
        [] v.ty = "str"  -> <<Quote>> \o v.s \o <<Quote>>
        [] v.ty = "num"  -> <<v.lit>>
        [] v.ty = "list" ->
             IF v.items = <<>> THEN <<"[", "]">>
             ELSE <<"[">> \o open \o DumpItems(<<>>, v.items, inner, sep)
                          \o close \o <<"]">>
        [] v.ty = "dict" ->
             IF v.keys = <<>> THEN <<"{", "}">>
             ELSE <<"{">> \o open \o DumpItems(v.keys, v.vals, inner, sep)
                          \o close \o <<"}">>

JsonDumps(v) == JsonDumpsAt(v, -1)
JsonDumpsIndent(v) == JsonDumpsAt(v, 0)

\* json.loads: a decoder of the JSON grammar without true, false and
\* fractions.  A parse is the value and the tokens after it.
Parsed(val, rest) == [val |-> val, rest |-> rest]
NoParse == Parsed(Undecodable, <<>>)

RECURSIVE SkipWs(_)
SkipWs(t) ==
  IF t # <<>> /\ Head(t) \in {" ", "\n"} THEN SkipWs(Tail(t)) ELSE t

\* The tokens of t before its first Quote are chars; the Quote closes them.
RECURSIVE ParseChars(_, _)
ParseChars(t, chars) ==
  IF t = <<>> THEN NoParse
  ELSE IF Head(t) = Quote THEN Parsed(JStr(chars), Tail(t))
  ELSE ParseChars(Tail(t), Append(chars, Head(t)))

RECURSIVE ParseValue(_)
RECURSIVE ParseItems(_, _)
RECURSIVE ParseMembers(_, _, _)

\* The items of a list after "[" or ",", up to "]".
ParseItems(t, items) ==
  LET p == ParseValue(SkipWs(t))
      after == SkipWs(p.rest)
  IN  IF p.val.ty = "undecodable" \/ after = <<>> THEN NoParse
      ELSE IF Head(after) = ","
        THEN ParseItems(Tail(after), Append(items, p.val))
      ELSE IF Head(after) = "]"
        THEN Parsed(JList(Append(items, p.val)), Tail(after))
      ELSE NoParse

\* The members of an object after "{" or ",", up to "}".  A key is one token.
ParseMembers(t, keys, vals) ==
  LET k == ParseValue(SkipWs(t))
      colon == SkipWs(k.rest)
  IN  IF k.val.ty # "str" \/ Len(k.val.s) # 1 THEN NoParse
      ELSE IF colon = <<>> \/ Head(colon) # ":" THEN NoParse
      ELSE
        LET p == ParseValue(SkipWs(Tail(colon)))
            after == SkipWs(p.rest)
        IN  IF p.val.ty = "undecodable" \/ after = <<>> THEN NoParse
            ELSE IF Head(after) = ","
              THEN ParseMembers(Tail(after), Append(keys, k.val.s[1]),
                                Append(vals, p.val))
            ELSE IF Head(after) = "}"
              THEN Parsed(JDict(Append(keys, k.val.s[1]), Append(vals, p.val)),
                          Tail(after))
            ELSE NoParse

ParseValue(t) ==
  IF t = <<>> THEN NoParse
  ELSE IF Head(t) = "null" THEN Parsed(JNull, Tail(t))
  ELSE IF Head(t) \in NumberTokens THEN Parsed(JNum(Head(t)), Tail(t))
  ELSE IF Head(t) = Quote THEN ParseChars(Tail(t), <<>>)
  ELSE IF Head(t) = "["
    THEN LET r == SkipWs(Tail(t))
         IN  IF r # <<>> /\ Head(r) = "]" THEN Parsed(JList(<<>>), Tail(r))
             ELSE ParseItems(r, <<>>)
  ELSE IF Head(t) = "{"
    THEN LET r == SkipWs(Tail(t))
         IN  IF r # <<>> /\ Head(r) = "}" THEN Parsed(JDict(<<>>, <<>>), Tail(r))
             ELSE ParseMembers(r, <<>>, <<>>)
  ELSE NoParse

\* json.loads(text): the value, or Undecodable for a JSONDecodeError.
JsonLoads(text) ==
  LET p == ParseValue(SkipWs(text))
  IN  IF p.val.ty # "undecodable" /\ SkipWs(p.rest) = <<>> THEN p.val
      ELSE Undecodable

(***************************************************************************)
(* The values the service can send.                                        *)
(***************************************************************************)

Sessions == {"s1", "s2"}
ConvIds == {T("c1"), T("c2")}

PlainText == <<"Total", " ", "clients:", " ", "42">>
Row == JDict(<<"clients">>, <<JNum("42")>>)

\* The "response" field of a payload.
ResponseValues ==
  { Absent, JNull, JStr(PlainText), JStr(<<"[", "]">>), JList(<<Row>>),
    JDict(<<"data">>, <<JList(<<>>)>>) }

InitialPayload(c, m, s, r) ==
  MkDict(<<"conversation_id", "message_id", "status", "response">>,
         <<c, m, s, r>>)

PollPayload(s, r, e) == MkDict(<<"status", "response", "error">>, <<s, r, e>>)

ServiceConvIds == {Absent, JStr(<<>>)} \cup {JStr(x) : x \in ConvIds}

\* The text of the first content item of an answer to the query tool: a
\* result that is deferred, or complete with a response ...
InitialPayloads ==
  { InitialPayload(c, JStr(T("m1")), s, Absent) :
      c \in ServiceConvIds,
      s \in {Absent, JNull, JStr(T("EXECUTING"))} } \cup
  { InitialPayload(Absent, Absent, JStr(T("EXECUTING")), Absent) } \cup
  { InitialPayload(c, JStr(T("m1")), s, r) :
      c \in ServiceConvIds,
      s \in {JStr(T("COMPLETED")), JStr(T("complete"))},
      r \in ResponseValues }

\* ... and to the poll tool: still running (a status that is not terminal),
\* complete, failed, or with a status that is no string.
PendingPayloads ==
  { PollPayload(s, Absent, Absent) : s \in {Absent, JStr(T("EXECUTING"))} }

CompletedPayloads ==
  { PollPayload(s, r, Absent) :
      s \in {JStr(T("COMPLETED")), JStr(T("complete"))},
      r \in ResponseValues }

FailedPayloads ==
  { PollPayload(s, Absent, e) :
      s \in {JStr(T("FAILED")), JStr(T("error"))},
      e \in {Absent, JNull, JStr(<<>>), JStr(T("Unknown column"))} }

PollPayloads ==
  PendingPayloads \cup CompletedPayloads \cup FailedPayloads \cup
  { PollPayload(JNull, Absent, Absent) }

(***************************************************************************)
(* ResponseNormalizer: _format_response and _format_data_as_table.         *)
(***************************************************************************)

\* pandas.DataFrame(data) succeeds on a list of records.
Tabular(data) ==
  data.ty = "list" /\ \A i \in DOMAIN data.items : data.items[i].ty = "dict"

RECURSIVE Cells(_)
Cells(vals) ==
  IF vals = <<>> THEN <<>>
  ELSE <<" ">> \o (IF Head(vals).ty = "str" THEN Head(vals).s
                   ELSE JsonDumps(Head(vals)))
               \o <<" ", "|">> \o Cells(Tail(vals))

RECURSIVE MarkdownRows(_)
MarkdownRows(rows) ==
  IF rows = <<>> THEN <<>>
  ELSE <<"\n", "|">> \o Cells(rows[1].vals) \o MarkdownRows(Tail(rows))

\* DataFrame.to_markdown(index=False) of records with the columns of the
\* first one: a header line, a rule, and one line per record (the padding
\* that aligns the columns is left out).
ToMarkdown(data) ==
  <<"|">> \o Cells([i \in DOMAIN data.items[1].keys |->
                      JStr(T(data.items[1].keys[i]))])
          \o <<"\n", "|", "---", "|">> \o MarkdownRows(data.items)

_format_data_as_table(data) ==
  IF ~Truthy(data) THEN T("No data found.")
  ELSE IF Tabular(data) THEN ToMarkdown(data)
  ELSE JsonDumpsIndent(data)

\* str(v) of a value that is no str, list or dict.
PyRepr(v) == IF v.ty = "num" THEN T(v.lit) ELSE T("None")

FormatContainer(data, other) ==
  IF data.ty = "list" THEN _format_data_as_table(data)
  ELSE IF data.ty = "dict"
    THEN IF HasKey(data, "data")
           THEN _format_data_as_table(DictGet(data, "data", JNull))
           ELSE JsonDumpsIndent(data)
  ELSE other

\* The normalizer stripping the text it cannot decode.
_format_response_stripped(response) ==
  IF response.ty = "str"
    THEN LET data == JsonLoads(response.s)
         IN  IF data.ty = "undecodable" THEN strip(response.s)
             ELSE FormatContainer(data, response.s)
    ELSE FormatContainer(response, PyRepr(response))

\* GenieMCPClient._format_response
_format_response(response) ==
  IF response.ty = "str"
    THEN LET data == JsonLoads(response.s)
         IN  IF data.ty = "undecodable" THEN response.s
             ELSE FormatContainer(data, response.s)
    ELSE FormatContainer(response, PyRepr(response))

(***************************************************************************)
(* The normalizer run on its own: a payload is normalised, and the text it *)
(* gave is normalised once more.                                           *)
(***************************************************************************)

\* The tokens of the string payloads, and the longest of them.
TextAlphabet == {"Total", " ", "42", "null", "[", "]", "{"}
MaxTextLen == 3

RECURSIVE TextsOfLen(_)
TextsOfLen(n) ==
  IF n = 0 THEN {<<>>}
  ELSE {<<a>> \o t : a \in TextAlphabet, t \in TextsOfLen(n - 1)}

Texts == UNION {TextsOfLen(n) : n \in 0..MaxTextLen}

Payloads == {JStr(t) : t \in Texts} \cup (ResponseValues \ {Absent})

VARIABLES
  npayload,  \* the payload handed to _format_response
  ntext,     \* the text the last normalisation returned
  ncalls     \* the normalisations made of npayload: 0, 1 or 2

nvars == <<npayload, ntext, ncalls>>

NormalizerIdle ==
  /\ npayload = JNull
  /\ ntext = None
  /\ ncalls = 0

NormalizerInit ==
  /\ npayload \in Payloads
  /\ ntext = None
  /\ ncalls = 0

\* The payload is normalised.
Normalize ==
  /\ ncalls = 0
  /\ ntext' = _format_response(npayload)
  /\ ncalls' = 1
  /\ UNCHANGED npayload

\* The normalised text is normalised again.
Renormalize ==
  /\ ncalls = 1
  /\ ntext' = _format_response(JStr(ntext))
  /\ ncalls' = 2
  /\ UNCHANGED npayload

\* The next payload arrives.
NextPayload ==
  /\ ncalls = 2
  /\ npayload' \in Payloads
  /\ ntext' = None
  /\ ncalls' = 0

(***************************************************************************)
(*                      utils/error_handler.py                             *)
(*                                                                         *)
(* ErrorHandler.handle_error_endpoint.  Its collaborators (the chat        *)
(* database, the history cache, the MessageResponse constructor) are what  *)
(* a case says of them: each call of one returns or raises.                *)
(***************************************************************************)

\* A report and what the collaborators do with it: user_info has a user_id
\* or not; get_chat raises, finds no session ("none"), or finds one "with"
\* or "without" a message of the report's message_id; the other calls
\* return (TRUE) or raise (FALSE).
EndpointCases ==
  [ user_id : BOOLEAN, message_id : {None, <<>>, T("m1")},
    get_chat : {"raise", "none", "without", "with"},
    build : BOOLEAN, save : BOOLEAN, add : BOOLEAN,
    update : BOOLEAN, cache_update : BOOLEAN ]

NoCase ==
  [ user_id |-> FALSE, message_id |-> None, get_chat |-> "raise",
    build |-> FALSE, save |-> FALSE, add |-> FALSE,
    update |-> FALSE, cache_update |-> FALSE ]

\* str(uuid.uuid4())
NewMessageId == T("uuid4")

\* What the endpoint did: the dict it returned and the calls it made.
Answered(result, calls) == [result |-> result, calls |-> calls]

\* Lines 89 and 130
Saved(message_id) == [status |-> "error saved", message_id |-> message_id]

\* Exception e leaves the endpoint.
EndpointRaises(e, message_id) == [raised |-> e]

\* except Exception as e (lines 132-136)
EndpointCaught(e, message_id) ==
  [status |-> "error logged",
   message_id |-> IF message_id \in {None, <<>>} THEN T("unknown")
                                                  ELSE message_id]

\* Lines 69-89: no session; the message is saved to a new one, and a failure
\* of the save is logged and passed over (lines 86-88).
OnNoSession(c) ==
  IF ~c.build
    THEN Answered(EndpointCaught("ValidationError", c.message_id),
                  <<"get_chat">>)
    ELSE Answered(Saved(NewMessageId),
                  <<"get_chat", "save_message_to_session">>)

\* Lines 94-113: a new error message is saved and added to the cache.
OnNewError(c) ==
  IF ~c.build
    THEN Answered(EndpointCaught("ValidationError", c.message_id),
                  <<"get_chat">>)
  ELSE IF ~c.save
    THEN Answered(EndpointCaught("DatabaseError", c.message_id),
                  <<"get_chat", "save_message_to_session">>)
  ELSE IF ~c.add
    THEN Answered(EndpointCaught("CacheError", c.message_id),
                  <<"get_chat", "save_message_to_session", "add_message">>)
  ELSE Answered(Saved(NewMessageId),
                <<"get_chat", "save_message_to_session", "add_message">>)

\* Lines 114-128: the message of the report's id is updated.
OnExistingError(c) ==
  IF ~c.build
    THEN Answered(EndpointCaught("ValidationError", c.message_id),
                  <<"get_chat">>)
  ELSE IF ~c.update
    THEN Answered(EndpointCaught("DatabaseError", c.message_id),
                  <<"get_chat", "update_message">>)
  ELSE IF ~c.cache_update
    THEN Answered(EndpointCaught("CacheError", c.message_id),
                  <<"get_chat", "update_message", "cache.update_message">>)
  ELSE Answered(Saved(c.message_id),
                <<"get_chat", "update_message", "cache.update_message">>)

\* ErrorHandler.handle_error_endpoint
handle_error_endpoint(c) ==
  IF ~c.user_id
    THEN Answered(EndpointCaught("KeyError", c.message_id), <<>>)
  ELSE IF c.get_chat = "raise"
    THEN Answered(EndpointCaught("DatabaseError", c.message_id),
                  <<"get_chat">>)
  ELSE IF c.get_chat = "none" THEN OnNoSession(c)
  ELSE IF c.get_chat = "without" THEN OnNewError(c)
  ELSE OnExistingError(c)

VARIABLES
  ecase,     \* the report handed to the endpoint and its collaborators
  estage,    \* "idle", "input" or "handled"
  eresult,   \* what the endpoint returned
  ecalls     \* the calls of collaborators it made

evars == <<ecase, estage, eresult, ecalls>>

NoAnswer == [status |-> None]

EndpointIdle ==
  /\ ecase = NoCase
  /\ estage = "idle"
  /\ eresult = NoAnswer
  /\ ecalls = <<>>

EndpointInit ==
  /\ ecase \in EndpointCases
  /\ estage = "input"
  /\ eresult = NoAnswer
  /\ ecalls = <<>>

\* The endpoint handles the report.
HandleError ==
  /\ estage = "input"
  /\ LET a == handle_error_endpoint(ecase)
     IN  eresult' = a.result /\ ecalls' = a.calls
  /\ estage' = "handled"
  /\ UNCHANGED ecase

\* The next report arrives.
NextError ==
  /\ estage = "handled"
  /\ ecase' \in EndpointCases
  /\ estage' = "input"
  /\ eresult' = NoAnswer
  /\ ecalls' = <<>>

(***************************************************************************)
(* What the service answers: the HTTP responses of the model.              *)
(***************************************************************************)

ServiceErrors ==
  { <<"Quota", " ", "exceeded">>,
    <<"Conversation", " ", "NOT", " ", "FOUND">>,
    <<"session", " ", "expired">>, <<>> }

\* sub in s
Contains(s, sub) ==
  \E i \in 1..(Len(s) - Len(sub) + 1) : SubSeq(s, i, i + Len(sub) - 1) = sub

ErrorValues ==
  { JDict(<<"message">>, <<JStr(m)>>) : m \in ServiceErrors } \cup
  { JDict(<<"message">>, <<JNull>>), JDict(<<"code">>, <<JNum("500")>>),
    JStr(T("boom")), JNull }

TextItem(t) == JDict(<<"type", "text">>, <<JStr(T("text")), t>>)
ContentBody(items) ==
  JDict(<<"result">>, <<JDict(<<"content">>, <<JList(items)>>)>>)

\* The 2xx answer whose content text is the serialised payload p.
PayloadResponse(p) ==
  [net |-> "ok", status_code |-> 200,
   json |-> ContentBody(<<TextItem(JStr(JsonDumps(p)))>>)]

\* The 2xx answer that carries the top-level error e.
ErrorResponse(e) ==
  [net |-> "ok", status_code |-> 200, json |-> JDict(<<"error">>, <<e>>)]

\* Content texts that json.loads rejects: prose, and JSON cut short.
RawTexts == {PlainText, <<"{", "Total">>}

\* The decoded bodies of a 2xx answer whose content text, when there is one,
\* is a serialised payload of payloads, a text of RawTexts, or a JSON value
\* that is no object.
Bodies(payloads) ==
  { Undecodable, JList(<<>>), JDict(<<>>, <<>>),
    JDict(<<"result">>, <<JNull>>), ContentBody(<<>>),
    ContentBody(<<JStr(T("text"))>>),
    ContentBody(<<JDict(<<"type">>, <<JStr(T("text"))>>)>>),
    ContentBody(<<TextItem(JNull)>>) } \cup
  { JDict(<<"error">>, <<e>>) : e \in ErrorValues } \cup
  { ContentBody(<<TextItem(JStr(JsonDumps(p)))>>) : p \in payloads } \cup
  { ContentBody(<<TextItem(JStr(t))>>) :
      t \in RawTexts \cup {<<"[", "]">>, T("42"), T("null")} }

\* net = "error": the request failed in transport (no response).
Unanswered == [net |-> "error", status_code |-> 0, json |-> Undecodable]

Responses(payloads) ==
  { Unanswered } \cup
  { [net |-> "ok", status_code |-> c, json |-> Undecodable] :
      c \in {429, 500, 404} } \cup
  { [net |-> "ok", status_code |-> 200, json |-> b] : b \in Bodies(payloads) }

InitialResponses == Responses(InitialPayloads)
PollResponses == Responses(PollPayloads)

(***************************************************************************)
(* GenieMCPClient.query_genie, from the response of its request on.        *)
(***************************************************************************)

RateLimitMessage ==
  T("The service is currently experiencing high demand. Please try again in a few moments.")
ExpiredMessage ==
  T("The conversation has expired. Please try your query again.")
TimeoutMessage == T("Query timed out. Please try again.")

\* What query_genie does with the response: it returns a triple
\* (kind "return") or enters the poll loop (kind "poll"); recorded is the id
\* it stored in conversation_ids on the way, or None.
Returns(text, conv, err, recorded) ==
  [kind |-> "return", text |-> text, conv |-> conv, err |-> err,
   recorded |-> recorded, poll_conv |-> None, message_id |-> None]

Polls(poll_conv, message_id, new_conversation_id, recorded) ==
  [kind |-> "poll", text |-> <<>>, conv |-> new_conversation_id, err |-> None,
   recorded |-> recorded, poll_conv |-> poll_conv, message_id |-> message_id]

\* Exception e leaves query_genie.
CaughtNoHandler(e, conversation_id, recorded) ==
  [kind |-> "raise", text |-> <<>>, conv |-> None, err |-> e,
   recorded |-> recorded, poll_conv |-> None, message_id |-> None]

\* except Exception as e (lines 117-119); e names the exception.
Caught(e, conversation_id, recorded) ==
  Returns(<<>>, conversation_id, <<"Error querying Genie Space: ", e>>,
          recorded)

\* The fallback giving up the id of the caller.
OnJSONDecodeErrorNoId(text_content, conversation_id) ==
  Returns(_format_response(JStr(text_content)), None, None, None)

\* except json.JSONDecodeError (lines 107-108)
OnJSONDecodeError(text_content, conversation_id) ==
  Returns(_format_response(JStr(text_content)), conversation_id, None, None)

\* Lines 84-108: the text of the first content item is there.
OnContentText(text_content, conversation_id) ==
  LET parsed == JsonLoads(text_content)
  IN  IF parsed.ty = "undecodable"
        THEN OnJSONDecodeError(text_content, conversation_id)
      ELSE IF parsed.ty # "dict"
        THEN Caught("AttributeError", conversation_id, None)
      ELSE
        LET new_conversation_id == DictGet(parsed, "conversation_id", JNull)
            message_id == DictGet(parsed, "message_id", JNull)
            status == DictGet(parsed, "status", JStr(<<>>))
            recorded == IF Truthy(new_conversation_id)
                          THEN PyStr(new_conversation_id) ELSE None
        IN  IF status.ty # "str"
              THEN Caught("AttributeError", conversation_id, recorded)
            ELSE IF lower(status.s) \notin {T("completed"), T("complete")}
              THEN Polls(IF Truthy(new_conversation_id)
                           THEN PyStr(new_conversation_id)
                           ELSE conversation_id,
                         PyStr(message_id), PyStr(new_conversation_id),
                         recorded)
            ELSE Returns(_format_response(
                           DictGet(parsed, "response", JStr(text_content))),
                         PyStr(new_conversation_id), None, recorded)

\* The handler of HTTPStatusError giving up the id of the caller.
OnHTTPStatusErrorNoId(status_code, conversation_id) ==
  IF status_code = 429
    THEN Returns(<<>>, None, RateLimitMessage, None)
    ELSE Returns(<<>>, None,
                 <<"Error querying Genie Space: ", "HTTPStatusError">>, None)

\* except httpx.HTTPStatusError as e (lines 112-116)
OnHTTPStatusError(status_code, conversation_id) ==
  IF status_code = 429
    THEN Returns(<<>>, conversation_id, RateLimitMessage, None)
    ELSE Returns(<<>>, conversation_id,
                 <<"Error querying Genie Space: ", "HTTPStatusError">>, None)

\* Lines 71-110: the response of the request is there.
OnResponse(response, conversation_id) ==
  IF response.net = "error"
    THEN Caught("ConnectError", conversation_id, None)
  ELSE IF response.status_code = 429
    THEN Returns(<<>>, None, RateLimitMessage, None)
  ELSE IF response.status_code \notin 200..299
    THEN OnHTTPStatusError(response.status_code, conversation_id)
  ELSE IF response.json.ty = "undecodable"
    THEN Caught("JSONDecodeError", conversation_id, None)
  ELSE
    LET result == response.json
    IN  IF result.ty \notin {"dict", "list", "str"}
          THEN Caught("TypeError", conversation_id, None)
        ELSE IF result.ty = "dict" /\ HasKey(result, "error")
          THEN LET e == DictGet(result, "error", JDict(<<>>, <<>>))
               IN  IF e.ty # "dict"
                     THEN Caught("AttributeError", conversation_id, None)
                     ELSE Returns(<<>>, None,
                                  PyStr(DictGet(e, "message",
                                          JStr(T("Unknown error from Genie")))),
                                  None)
        ELSE IF result.ty # "dict"
          THEN Caught("AttributeError", conversation_id, None)
        ELSE
          LET r == DictGet(result, "result", JDict(<<>>, <<>>))
          IN  IF r.ty # "dict"
                THEN Caught("AttributeError", conversation_id, None)
              ELSE
                LET content == DictGet(r, "content", JList(<<>>))
                IN  IF ~Truthy(content)
                      THEN Returns(T("No response from Genie Space."),
                                   conversation_id, None, None)
                    ELSE IF content.ty # "list" \/ content.items[1].ty # "dict"
                      THEN Caught("AttributeError", conversation_id, None)
                    ELSE
                      LET text_content ==
                            DictGet(content.items[1], "text", JStr(<<>>))
                      IN  IF text_content.ty # "str"
                            THEN Caught("TypeError", conversation_id, None)
                            ELSE OnContentText(text_content.s,
                                               conversation_id)

(***************************************************************************)
(* GenieMCPClient._poll_for_completion: one pass of its loop.              *)
(***************************************************************************)

poll_interval == 2

\* The pass returns (kind "return", in one of the terminal states) or goes
\* on to the next attempt after a sleep; posted says that the poll request
\* went out, failed that the pass ended in the except clause.
PollReturns(text, err, state) ==
  [kind |-> "return", text |-> text, err |-> err, state |-> state,
   sleep |-> 0, posted |-> TRUE, failed |-> FALSE]

PollGoesOn(sleep, posted, failed) ==
  [kind |-> "continue", text |-> <<>>, err |-> None, state |-> "POLLING",
   sleep |-> sleep, posted |-> posted, failed |-> failed]

RateLimitSleepLonger == poll_interval * 3

\* Line 164: asyncio.sleep(poll_interval * 2)
RateLimitSleep == poll_interval * 2

\* The except clause with the sleep of the 429 branch.
PollCaughtBackoff(posted) == PollGoesOn(poll_interval * 2, posted, TRUE)

\* The except clause giving up: the first exception ends the loop.
PollCaughtFatal(posted) ==
  PollReturns(<<>>, T("Poll attempt failed"), "FAILED")

\* except Exception as e (lines 194-196)
PollCaught(posted) == PollGoesOn(poll_interval, posted, TRUE)

\* The test of line 184 without lower().
PollCompletedExact(status) == status \in {T("completed"), T("complete")}

\* Line 184: status.lower() in ["completed", "complete"]
PollCompleted(status) == lower(status) \in {T("completed"), T("complete")}

\* Line 187: status.lower() in ["error", "failed"]
PollFailed(status) == lower(status) \in {T("error"), T("failed")}

\* Lines 178-190: the text of the first content item is there.
PollOnContentText(text_content) ==
  LET parsed == JsonLoads(text_content)
  IN  IF parsed.ty = "undecodable"
        THEN PollGoesOn(poll_interval, TRUE, FALSE)
      ELSE IF parsed.ty # "dict" THEN PollCaught(TRUE)
      ELSE
        LET status == DictGet(parsed, "status", JStr(<<>>))
        IN  IF status.ty # "str" THEN PollCaught(TRUE)
            ELSE IF PollCompleted(status.s)
              THEN PollReturns(
                     _format_response(
                       DictGet(parsed, "response", JStr(text_content))),
                     None, "COMPLETED")
            ELSE IF PollFailed(status.s)
              THEN PollReturns(<<>>,
                     PyStr(DictGet(parsed, "error", JStr(T("Query failed")))),
                     "FAILED")
            ELSE PollGoesOn(poll_interval, TRUE, FALSE)

\* The test of line 172 without lower().
IsExpiredExact(error_msg) ==
  \/ Contains(error_msg, T("expired"))
  \/ Contains(error_msg, <<"not", " ", "found">>)

\* Line 172: "expired" in error_msg.lower() or "not found" in error_msg.lower()
IsExpired(error_msg) ==
  \/ Contains(lower(error_msg), T("expired"))
  \/ Contains(lower(error_msg), <<"not", " ", "found">>)

\* Lines 170-174: the body carries a top-level error.
PollOnError(e) ==
  IF e.ty # "dict" THEN PollCaught(TRUE)
  ELSE
    LET error_msg == DictGet(e, "message", JStr(T("Unknown error")))
    IN  IF error_msg.ty # "str" THEN PollCaught(TRUE)
        ELSE IF IsExpired(error_msg.s)
          THEN PollReturns(<<>>, ExpiredMessage, "EXPIRED")
        ELSE PollReturns(<<>>, error_msg.s, "FAILED")

\* Lines 143-196: one pass; token_ok is whether _get_headers got a token.
PollPass(token_ok, response) ==
  IF ~token_ok THEN PollCaught(FALSE)
  ELSE IF response.net = "error" THEN PollCaught(TRUE)
  ELSE IF response.status_code = 429
    THEN PollGoesOn(RateLimitSleep, TRUE, FALSE)
  ELSE IF response.status_code \notin 200..299 THEN PollCaught(TRUE)
  ELSE IF response.json.ty = "undecodable" THEN PollCaught(TRUE)
  ELSE
    LET result == response.json
    IN  IF result.ty = "dict" /\ HasKey(result, "error")
          THEN PollOnError(DictGet(result, "error", JDict(<<>>, <<>>)))
        ELSE IF result.ty # "dict" THEN PollCaught(TRUE)
        ELSE
          LET r == DictGet(result, "result", JDict(<<>>, <<>>))
          IN  IF r.ty # "dict" THEN PollCaught(TRUE)
              ELSE
                LET content == DictGet(r, "content", JList(<<>>))
                IN  IF ~Truthy(content)
                      THEN PollGoesOn(poll_interval, TRUE, FALSE)
                    ELSE IF content.ty # "list" \/ content.items[1].ty # "dict"
                      THEN PollCaught(TRUE)
                    ELSE
                      LET text_content ==
                            DictGet(content.items[1], "text", JStr(<<>>))
                      IN  IF text_content.ty # "str" THEN PollCaught(TRUE)
                          ELSE PollOnContentText(text_content.s)

(***************************************************************************)
(* The client as a state machine: the calls of query_genie in flight, each *)
(* stopping where the code awaits, and the conversation tracker.           *)
(***************************************************************************)

AllTasks == {1, 2}

\* max_attempts of _poll_for_completion (60 in the code).
MaxAttempts == 3

VARIABLES
  tasks,             \* the calls of query_genie: their arguments and locals
  conversation_ids,  \* GenieMCPClient.conversation_ids
  last_recorded,     \* per session: the id stored since its last clear, or None
  issued,            \* the calls not yet returned, in the order of their start
  processed          \* those of them whose first response query_genie has
                     \* processed, in the order of the processing

cvars == <<tasks, conversation_ids, last_recorded, issued, processed>>
vars ==
  <<rquery, rstage, rresult, rroute, npayload, ntext, ncalls,
    ecase, estage, eresult, ecalls,
    tasks, conversation_ids, last_recorded, issued, processed>>

IdleTask ==
  [ pc |-> "idle",
    session_id |-> None, conversation_id |-> None,    \* the arguments
    requests |-> 0,                \* requests of the query tool sent
    sent_conversation_id |-> None, \* arguments["conversation_id"] of it
    new_conversation_id |-> None, message_id |-> None,
    poll_conversation_id |-> None, \* conversation_id of the poll loop
    attempt |-> 0,                 \* passes of the poll loop made
    poll_calls |-> 0,              \* poll requests sent
    slept |-> 0,                   \* time slept in the poll loop
    pending_seen |-> 0,            \* polls answered with a pending status
    rate_limited |-> 0,            \* polls answered with status 429
    failed_seen |-> 0,             \* passes that failed: no token, no answer,
                                   \* a status of error, an undecodable body
    poll_state |-> "NONE", poll_text |-> <<>>, poll_err |-> None,
    text |-> <<>>, conv |-> None, err |-> None, \* the triple returned
    fault |-> FALSE ]              \* an exception left query_genie

\* conversation_ids is a dict: a function on the session ids it holds.
EmptyDict == [s \in {} |-> None]

\* dict.setdefault in place of the assignment of line 93.
DictPutIfAbsent(d, k, v) ==
  [x \in DOMAIN d \cup {k} |-> IF x \in DOMAIN d THEN d[x] ELSE v]

\* Line 93: self.conversation_ids[session_id] = new_conversation_id
DictPut(d, k, v) == [x \in DOMAIN d \cup {k} |-> IF x = k THEN v ELSE d[x]]
DictDel(d, k) == [x \in DOMAIN d \ {k} |-> d[x]]

\* GenieMCPClient.get_conversation_id
get_conversation_id(session_id) ==
  IF session_id \in DOMAIN conversation_ids
    THEN conversation_ids[session_id] ELSE None

\* A clear that empties the whole dict.
clear_conversation_all(session_id) == EmptyDict

\* GenieMCPClient.clear_conversation
clear_conversation(session_id) ==
  IF session_id \in DOMAIN conversation_ids
    THEN DictDel(conversation_ids, session_id) ELSE conversation_ids

ClientInit ==
  /\ tasks = [t \in AllTasks |-> IdleTask]
  /\ conversation_ids = EmptyDict
  /\ last_recorded = [s \in Sessions |-> None]
  /\ issued = <<>>
  /\ processed = <<>>

\* query_genie returns, or (never in the code as it is) raises.
Finish(task, o) ==
  [task EXCEPT !.pc = "done", !.text = o.text, !.conv = o.conv,
               !.err = o.err, !.fault = (o.kind = "raise")]

\* The return after the poll loop with the id the caller passed.
AfterPollCallerId(task, response_text, error, state) ==
  [task EXCEPT !.pc = "done", !.poll_state = state,
               !.poll_text = response_text, !.poll_err = error,
               !.text = IF error \notin {None, <<>>} THEN <<>>
                                                          ELSE response_text,
               !.conv = task.conversation_id,
               !.err = IF error \notin {None, <<>>} THEN error ELSE None]

\* Lines 100-102: the poll loop returned (response_text, error).
AfterPoll(task, response_text, error, state) ==
  [task EXCEPT !.pc = "done", !.poll_state = state,
               !.poll_text = response_text, !.poll_err = error,
               !.text = IF error \notin {None, <<>>} THEN <<>>
                                                          ELSE response_text,
               !.conv = task.new_conversation_id,
               !.err = IF error \notin {None, <<>>} THEN error ELSE None]

\* The test of line 52 as "is not None": an empty id is sent too.
ArgumentsNotNone(conversation_id) ==
  IF conversation_id # None THEN conversation_id ELSE None

\* Lines 51-53: arguments["conversation_id"] of the request, None when the
\* key is not set.
Arguments(conversation_id) ==
  IF conversation_id \notin {None, <<>>} THEN conversation_id ELSE None

\* Lines 47-69: query_genie is called and runs up to the await of its request.
Start(t, session_id, conversation_id, token_ok) ==
  /\ tasks[t].pc = "idle"
  /\ LET called == [IdleTask EXCEPT !.session_id = session_id,
                                    !.conversation_id = conversation_id]
     IN  tasks' = [tasks EXCEPT ![t] =
           IF token_ok
             THEN [called EXCEPT
                     !.pc = "awaiting", !.requests = 1,
                     !.sent_conversation_id = Arguments(conversation_id)]
             ELSE Finish(called, Caught("TokenError", conversation_id, None))]
  /\ issued' = Append(issued, t)
  /\ UNCHANGED <<conversation_ids, last_recorded, processed>>

\* Lines 65-110: the request is answered and query_genie runs on, to its
\* return or into the poll loop.
Respond(t, response) ==
  /\ tasks[t].pc = "awaiting"
  /\ LET task == tasks[t]
         o == OnResponse(response, task.conversation_id)
     IN  /\ tasks' = [tasks EXCEPT ![t] =
               IF o.kind = "poll"
                 THEN [task EXCEPT !.pc = "polling",
                                   !.new_conversation_id = o.conv,
                                   !.message_id = o.message_id,
                                   !.poll_conversation_id = o.poll_conv,
                                   !.poll_state = "POLLING"]
                 ELSE Finish(task, o)]
         /\ conversation_ids' =
               IF o.recorded # None
                 THEN DictPut(conversation_ids, task.session_id, o.recorded)
                 ELSE conversation_ids
         /\ last_recorded' =
               IF o.recorded # None
                 THEN [last_recorded EXCEPT ![task.session_id] = o.recorded]
                 ELSE last_recorded
  /\ processed' = Append(processed, t)
  /\ UNCHANGED issued

PendingResponses == {PayloadResponse(p) : p \in PendingPayloads}

RateLimitedResponse ==
  [net |-> "ok", status_code |-> 429, json |-> Undecodable]

\* The answers on which line 157, 167 or 168 raises.
FailingResponses ==
  { [net |-> "error", status_code |-> 0, json |-> Undecodable],
    [net |-> "ok", status_code |-> 500, json |-> Undecodable],
    [net |-> "ok", status_code |-> 404, json |-> Undecodable],
    [net |-> "ok", status_code |-> 200, json |-> Undecodable] }

\* range(max_attempts + 1) in place of range(max_attempts).
LoopEndsLate(attempt) == attempt > MaxAttempts

\* Line 142: range(max_attempts) is used up after this many passes.
LoopEnds(attempt) == attempt >= MaxAttempts

\* Lines 142-198 and 100-102: one pass of the poll loop, its sleep included;
\* after the last pass, or a pass that returns, query_genie returns.
PollAttempt(t, token_ok, response) ==
  /\ tasks[t].pc = "polling"
  /\ LET task == tasks[t]
         o == PollPass(token_ok, response)
         passed == [task EXCEPT
                      !.attempt = @ + 1,
                      !.poll_calls = @ + (IF o.posted THEN 1 ELSE 0),
                      !.slept = @ + o.sleep,
                      !.pending_seen = @ +
                         (IF token_ok /\ response \in PendingResponses
                            THEN 1 ELSE 0),
                      !.rate_limited = @ +
                         (IF token_ok /\ response = RateLimitedResponse
                            THEN 1 ELSE 0),
                      !.failed_seen = @ +
                         (IF ~token_ok \/ response \in FailingResponses
                            THEN 1 ELSE 0)]
     IN  tasks' = [tasks EXCEPT ![t] =
           IF o.kind = "return"
             THEN AfterPoll(passed, o.text, o.err, o.state)
           ELSE IF LoopEnds(passed.attempt)
             THEN AfterPoll(passed, <<>>, TimeoutMessage, "TIMED_OUT")
           ELSE passed]
  /\ UNCHANGED <<conversation_ids, last_recorded, issued, processed>>

\* The calls of seq other than t.
Without(seq, t) == SelectSeq(seq, LAMBDA x : x # t)

\* The caller takes the triple.
Return(t) ==
  /\ tasks[t].pc = "done"
  /\ tasks' = [tasks EXCEPT ![t] = IdleTask]
  /\ issued' = Without(issued, t)
  /\ processed' = Without(processed, t)
  /\ UNCHANGED <<conversation_ids, last_recorded>>

\* A caller clears the conversation of a session.
Clear(session_id) ==
  /\ conversation_ids' = clear_conversation(session_id)
  /\ last_recorded' = [last_recorded EXCEPT ![session_id] = None]
  /\ UNCHANGED <<tasks, issued, processed>>

\* The conversation ids a caller passes.
CallerConvIds == {None, <<>>, T("c1")}

Init == RouterIdle /\ NormalizerIdle /\ EndpointIdle /\ ClientInit

\* One call at a time, for one session, with every answer of the service.
Next ==
  \/ \E c \in CallerConvIds, k \in BOOLEAN :
        Start(1, "s1", c, k) /\ UNCHANGED <<rvars, nvars, evars>>
  \/ \E r \in InitialResponses :
        Respond(1, r) /\ UNCHANGED <<rvars, nvars, evars>>
  \/ \E r \in PollResponses :
        PollAttempt(1, TRUE, r) /\ UNCHANGED <<rvars, nvars, evars>>
  \/ PollAttempt(1, FALSE, Unanswered) /\ UNCHANGED <<rvars, nvars, evars>>
  \/ Return(1) /\ UNCHANGED <<rvars, nvars, evars>>
  \/ Clear("s1") /\ UNCHANGED <<rvars, nvars, evars>>

Spec == Init /\ [][Next]_vars

\* The request of line 65 and of line 157 is awaited on a client with a
\* timeout, and the sleeps of the loop end: a call in flight goes on.
LiveSpec ==
  /\ Spec
  /\ WF_vars(\E r \in InitialResponses : Respond(1, r) /\ UNCHANGED <<rvars, nvars, evars>>)
  /\ WF_vars(\E k \in BOOLEAN, r \in PollResponses :
               PollAttempt(1, k, r) /\ UNCHANGED <<rvars, nvars, evars>>)

\* The answers of the service that the calls in flight together get: the
\* ones that differ in what they do to the tracker and to the poll loop.
SharedInitialResponses ==
  { [net |-> "ok", status_code |-> 500, json |-> Undecodable] } \cup
  { PayloadResponse(p) :
      p \in { InitialPayload(c, JStr(T("m1")), s, Absent) :
                c \in {Absent} \cup {JStr(x) : x \in ConvIds},
                s \in {JStr(T("EXECUTING")), JStr(T("COMPLETED"))} } }

SharedPollResponses ==
  { PayloadResponse(p) :
      p \in { PollPayload(JStr(T("EXECUTING")), Absent, Absent),
              PollPayload(JStr(T("COMPLETED")), JStr(PlainText), Absent),
              PollPayload(JStr(T("FAILED")), Absent, Absent) } }

\* Calls in flight at the same time, for two sessions.
SessionsNext ==
  \/ \E t \in AllTasks, s \in Sessions :
        Start(t, s, None, TRUE) /\ UNCHANGED <<rvars, nvars, evars>>
  \/ \E t \in AllTasks, r \in SharedInitialResponses :
        Respond(t, r) /\ UNCHANGED <<rvars, nvars, evars>>
  \/ \E t \in AllTasks, r \in SharedPollResponses :
        PollAttempt(t, TRUE, r) /\ UNCHANGED <<rvars, nvars, evars>>
  \/ \E t \in AllTasks : Return(t) /\ UNCHANGED <<rvars, nvars, evars>>
  \/ \E s \in Sessions : Clear(s) /\ UNCHANGED <<rvars, nvars, evars>>

SpecSessions == Init /\ [][SessionsNext]_vars

RouterSpecInit ==
  RouterInit /\ NormalizerIdle /\ EndpointIdle /\ ClientInit

RouterNext ==
  \/ Classify /\ UNCHANGED <<cvars, nvars, evars>>
  \/ Route /\ UNCHANGED <<cvars, nvars, evars>>
  \/ NextQuery /\ UNCHANGED <<cvars, nvars, evars>>

SpecRouter == RouterSpecInit /\ [][RouterNext]_vars

NormalizerSpecInit ==
  RouterIdle /\ NormalizerInit /\ EndpointIdle /\ ClientInit

NormalizerNext ==
  \/ Normalize /\ UNCHANGED <<rvars, cvars, evars>>
  \/ Renormalize /\ UNCHANGED <<rvars, cvars, evars>>
  \/ NextPayload /\ UNCHANGED <<rvars, cvars, evars>>

SpecNormalizer == NormalizerSpecInit /\ [][NormalizerNext]_vars

EndpointSpecInit ==
  RouterIdle /\ NormalizerIdle /\ EndpointInit /\ ClientInit

EndpointNext ==
  \/ HandleError /\ UNCHANGED <<rvars, nvars, cvars>>
  \/ NextError /\ UNCHANGED <<rvars, nvars, cvars>>

SpecEndpoint == EndpointSpecInit /\ [][EndpointNext]_vars

(***************************************************************************)
(* The contract of query_genie and of its poll loop.                       *)
(***************************************************************************)

\* What a finished call holds: a text, and an error only with an empty text.
ReturnsTriple(task) ==
  /\ ~task.fault
  /\ task.text # None
  /\ task.err # None => task.text = <<>>

\* C1: query_genie always ends by returning a (text, optional conversation
\* id, optional error) triple and never lets an exception reach its caller,
\* whatever the token issuance, the answer to the request (failure of the
\* transport, any status, any body) and the answer to each poll are.
C1_AlwaysReturnsTriple ==
  /\ [](\A t \in AllTasks : tasks[t].pc = "done" => ReturnsTriple(tasks[t]))
  /\ (tasks[1].pc # "idle") ~> (tasks[1].pc = "done")

\* A call that returned the timeout after a poll pass that got no token.
C1_Witness ==
  /\ tasks[1].pc = "done" /\ ~tasks[1].fault
  /\ tasks[1].err = TimeoutMessage
  /\ tasks[1].poll_calls < tasks[1].attempt

\* C2: for every k in 1..max_attempts, when the first k-1 polls were all
\* answered with a status that is not terminal and the k-th is answered with
\* status completed or complete, the loop returns the normalised response of
\* the k-th answer and no error, after exactly k poll requests, and no poll
\* request follows.
C2_CompletedAtKthPoll ==
  [][ /\ \A p \in CompletedPayloads :
           ( /\ tasks[1].pending_seen = tasks[1].attempt
             /\ PollAttempt(1, TRUE, PayloadResponse(p)) )
           => /\ tasks'[1].pc = "done"
              /\ tasks'[1].poll_state = "COMPLETED"
              /\ tasks'[1].text =
                   _format_response(
                     DictGet(p, "response", JStr(JsonDumps(p))))
              /\ tasks'[1].err = None
              /\ tasks'[1].poll_calls = tasks[1].attempt + 1
              /\ tasks'[1].attempt = tasks[1].attempt + 1
      /\ tasks[1].pc = "done" =>
           tasks'[1].poll_calls \in {0, tasks[1].poll_calls} ]_vars

\* Two pending answers, then the completed one with a table for response.
C2_Witness ==
  /\ tasks[1].pc = "done" /\ tasks[1].poll_state = "COMPLETED"
  /\ tasks[1].pending_seen = 2 /\ tasks[1].attempt = 3
  /\ tasks[1].poll_calls = 3 /\ tasks[1].err = None
  /\ tasks[1].text = _format_data_as_table(JList(<<Row>>))

\* C3: when every poll is answered with a pending status, the loop ends in
\* TIMED_OUT with an empty text and the error "Query timed out. Please try
\* again." after exactly max_attempts poll requests, and never makes more.
C3_PendingOnlyTimesOut ==
  \A t \in AllTasks :
    LET task == tasks[t]
    IN  /\ task.poll_calls <= MaxAttempts
        /\ (task.attempt > 0 /\ task.pending_seen = task.attempt) =>
              /\ task.poll_calls = task.attempt
              /\ IF task.attempt < MaxAttempts
                   THEN task.pc = "polling"
                   ELSE /\ task.pc = "done"
                        /\ task.poll_state = "TIMED_OUT"
                        /\ task.text = <<>>
                        /\ task.err = TimeoutMessage
                        /\ task.poll_calls = MaxAttempts

C3_Witness ==
  /\ tasks[1].pc = "done" /\ tasks[1].poll_state = "TIMED_OUT"
  /\ tasks[1].pending_seen = MaxAttempts
  /\ tasks[1].poll_calls = MaxAttempts

\* The service errors that tell of a conversation that is gone.
ExpiredErrors ==
  { <<"Conversation", " ", "NOT", " ", "FOUND">>, <<"session", " ", "expired">> }

\* C4: a poll answered with a top-level service error whose message holds
\* "expired" or "not found", in any case of the letters, ends the loop in
\* EXPIRED with the error "The conversation has expired. Please try your
\* query again." and never with the text of the service; with any other
\* message it ends the loop in FAILED with that message as the error.
C4_ServiceErrorInPoll ==
  [][ \A m \in ServiceErrors :
        PollAttempt(1, TRUE, ErrorResponse(JDict(<<"message">>, <<JStr(m)>>)))
        => /\ tasks'[1].pc = "done"
           /\ tasks'[1].poll_text = <<>>
           /\ IF m \in ExpiredErrors
                THEN /\ tasks'[1].poll_state = "EXPIRED"
                     /\ tasks'[1].poll_err = ExpiredMessage
                     /\ tasks'[1].err = ExpiredMessage
                     /\ tasks'[1].err # m
                ELSE /\ tasks'[1].poll_state = "FAILED"
                     /\ tasks'[1].poll_err = m ]_vars

C4_Witness ==
  /\ tasks[1].pc = "done" /\ tasks[1].poll_state = "EXPIRED"
  /\ tasks[1].err = ExpiredMessage /\ tasks[1].text = <<>>
  /\ tasks[1].attempt = 2

\* The call made one request of the query tool and no poll.
OneRequestNoPoll(task) ==
  task.requests = 1 /\ task.poll_calls = 0 /\ task.attempt = 0

\* C10: the failures of the first request give, after that one request and
\* no poll: status 429, an empty text, no conversation id and the rate-limit
\* message; another status that is not 2xx, an empty text, the conversation
\* id of the caller and an "Error querying Genie Space" message; a 2xx body
\* with a top-level error object, an empty text, no conversation id and the
\* message of the service.
C10_InitialFailures ==
  [][ /\ \A c \in {429, 500, 404} :
           Respond(1, [net |-> "ok", status_code |-> c, json |-> Undecodable])
           => /\ tasks'[1].pc = "done" /\ tasks'[1].text = <<>>
              /\ OneRequestNoPoll(tasks'[1])
              /\ IF c = 429
                   THEN /\ tasks'[1].conv = None
                        /\ tasks'[1].err = RateLimitMessage
                   ELSE /\ tasks'[1].conv = tasks[1].conversation_id
                        /\ Head(tasks'[1].err) = "Error querying Genie Space: "
      /\ \A m \in ServiceErrors :
           Respond(1, ErrorResponse(JDict(<<"message">>, <<JStr(m)>>)))
           => /\ tasks'[1].pc = "done" /\ tasks'[1].text = <<>>
              /\ OneRequestNoPoll(tasks'[1])
              /\ tasks'[1].conv = None
              /\ tasks'[1].err = m ]_vars

\* The caller passed c1 and the request was answered 429.
C10_Witness ==
  /\ tasks[1].pc = "done" /\ tasks[1].conversation_id = T("c1")
  /\ tasks[1].text = <<>> /\ tasks[1].conv = None
  /\ tasks[1].err = RateLimitMessage /\ OneRequestNoPoll(tasks[1])

\* C5: the tracker holds at most one conversation id per session: after any
\* recordings and clears, get_conversation_id(s) is the id recorded last
\* for s since the last clear of s, and None when s was never recorded or
\* was cleared after its last recording; a clear of a session without an
\* entry changes nothing.
C5_TrackerSemantics ==
  /\ DOMAIN conversation_ids \subseteq Sessions
  /\ \A s \in Sessions :
        /\ get_conversation_id(s) = last_recorded[s]
        /\ get_conversation_id(s) \in ConvIds \cup {None}

\* A call of s1 stored c1, s1 was cleared after it, and s2 holds c2.
C5_Witness ==
  /\ tasks[1].pc = "done" /\ tasks[1].session_id = "s1"
  /\ tasks[1].conv = T("c1")
  /\ get_conversation_id("s1") = None
  /\ get_conversation_id("s2") = T("c2")

(***************************************************************************)
(* The contract of the router.                                             *)
(***************************************************************************)

\* The rules as the contract lists them, first match first.
RuleTable(d, g) ==
  CASE d > 0 /\ g = 0 -> <<DATA, Min(50 + 10 * d, 95)>>
    [] g > 0 /\ d = 0 -> <<GENERAL, Min(50 + 10 * g, 95)>>
    [] d > g /\ g > 0 -> <<DATA, Min(50 + 5 * (d - g), 85)>>
    [] g > d /\ d > 0 -> <<GENERAL, Min(50 + 5 * (g - d), 85)>>
    [] d = g          -> <<GENERAL, 50>>

\* C6: on the match counts (d, g) classify_query applies the first rule
\* that matches: d > 0 and g = 0, DATA with min(0.5 + 0.1 d, 0.95); g > 0 and
\* d = 0, GENERAL with min(0.5 + 0.1 g, 0.95); d > g, DATA with
\* min(0.5 + 0.05 (d - g), 0.85); g > d, GENERAL with
\* min(0.5 + 0.05 (g - d), 0.85); else (d = g) GENERAL with 0.5.
C6_RuleTable ==
  rstage = "classified" =>
    <<rresult.type, rresult.confidence>> =
       RuleTable(rresult.data_matches, rresult.general_matches)

\* A query of mixed signals whose confidence the second cap holds at 0.85.
C6_Witness ==
  /\ rstage = "classified" /\ rresult.type = DATA
  /\ rresult.data_matches = 10 /\ rresult.general_matches = 1
  /\ rresult.confidence = 85

\* The margin of a result in favour of its category.
Margin(c) ==
  IF c.type = DATA THEN c.data_matches - c.general_matches
                   ELSE c.general_matches - c.data_matches

\* Both results come from the rules for one-sided counts, or both from the
\* rules for mixed counts.
SameRule(a, b) ==
  (a.data_matches = 0 \/ a.general_matches = 0) <=>
  (b.data_matches = 0 \/ b.general_matches = 0)

\* C7 as stated: of two results of the same category, the one with the
\* larger margin never has the smaller confidence, and every confidence is
\* between 0.5 and 0.95.
C7_MonotoneInMargin ==
  rstage = "classified" =>
    /\ rresult.confidence \in 50..95
    /\ \A q \in Queries :
          LET c == classify_query(q)
          IN  (c.type = rresult.type /\ Margin(c) >= Margin(rresult))
                 => c.confidence >= rresult.confidence

\* C7: of two results of the same category that come from the same kind of
\* rule (one-sided counts, or mixed counts), the one with the larger margin
\* never has the smaller confidence, and every confidence is between 0.5 and
\* 0.95.
C7_MonotoneWithinRule ==
  rstage = "classified" =>
    /\ rresult.confidence \in 50..95
    /\ \A q \in Queries :
          LET c == classify_query(q)
          IN  ( /\ c.type = rresult.type
                /\ SameRule(c, rresult)
                /\ Margin(c) >= Margin(rresult) )
                 => c.confidence >= rresult.confidence

\* Four data matches alone give 0.9; some query of margin 5 gives 0.75.
C7_Witness ==
  /\ rstage = "classified" /\ rresult.type = DATA
  /\ rresult.data_matches = 4 /\ rresult.general_matches = 0
  /\ rresult.confidence = 90
  /\ \E q \in Queries :
        LET c == classify_query(q)
        IN  c.type = DATA /\ Margin(c) = 5 /\ c.confidence = 75

\* C8: should_route_to_genie(query) is true exactly when classify_query
\* returns DATA: no confidence is below 0.5, so the test of the confidence
\* never changes the decision.
C8_RouteIffData ==
  rstage = "routed" =>
    /\ rroute <=> (rresult.type = DATA)
    /\ rresult.confidence >= 50

\* A DATA query of the least confidence a DATA result has, and routed.
C8_Witness ==
  /\ rstage = "routed" /\ rroute
  /\ rresult.type = DATA /\ rresult.confidence = 55

\* C9 as stated: "how many clients have a housing risk flag" is DATA with a
\* confidence of at least 0.7, and "explain how neural networks work" is
\* GENERAL with a confidence of at least 0.7.
C9_BothAtLeastSeventy ==
  rstage = "classified" =>
    /\ rquery = HousingQuery =>
          rresult.type = DATA /\ rresult.confidence >= 70
    /\ rquery = NeuralQuery =>
          rresult.type = GENERAL /\ rresult.confidence >= 70

\* C9: "how many clients have a housing risk flag" is DATA with a
\* confidence of at least 0.7 (three data patterns match: 0.8), and "explain
\* how neural networks work" is GENERAL with confidence 0.6 (one general
\* pattern, explain, matches and no data pattern does).
C9_SampleQueries ==
  rstage = "classified" =>
    /\ rquery = HousingQuery =>
          /\ rresult.type = DATA /\ rresult.confidence >= 70
          /\ rresult.data_matches = 3 /\ rresult.general_matches = 0
    /\ rquery = NeuralQuery =>
          /\ rresult.type = GENERAL /\ rresult.confidence = 60
          /\ rresult.data_matches = 0 /\ rresult.general_matches = 1

C9_Witness ==
  /\ rstage = "classified" /\ rquery = NeuralQuery
  /\ rresult.type = GENERAL /\ rresult.confidence = 60

(***************************************************************************)
(* The contract of the normalizer.                                         *)
(***************************************************************************)

\* C11: normalising a string that is not valid JSON returns the string
\* unchanged, so normalising is idempotent on such strings:
\* normalize(normalize(s)) = normalize(s) = s.
C11_PlainStringUnchanged ==
  ( /\ npayload.ty = "str"
    /\ JsonLoads(npayload.s) = Undecodable
    /\ ncalls >= 1 )
  => ntext = npayload.s

\* A text that opens a list and is no JSON, with a space ahead of it,
\* normalised twice.
C11_Witness ==
  /\ npayload = JStr(<<" ", "[", "Total">>)
  /\ ncalls = 2
  /\ ntext = <<" ", "[", "Total">>

(***************************************************************************)
(* The contract of the error endpoint.                                     *)
(***************************************************************************)

\* C12: handle_error_endpoint never fails: whichever of its collaborators
\* fails (no user id, the lookup, the save or the update of the database,
\* the add or the update of the cache), it returns a dictionary with a
\* status and a message_id and raises nothing.
C12_EndpointNeverFails ==
  estage = "handled" =>
    /\ DOMAIN eresult = {"status", "message_id"}
    /\ eresult.status \in {"error saved", "error logged"}

\* A report without message id whose user_info has no user_id.
C12_Witness ==
  /\ estage = "handled" /\ ~ecase.user_id /\ ecase.message_id = None
  /\ ecalls = <<>>
  /\ eresult = [status |-> "error logged", message_id |-> T("unknown")]

(***************************************************************************)
(* The poll loop under rate limits and failures.                           *)
(***************************************************************************)

\* C13 as stated: the time the poll loop sleeps in all never exceeds
\* max_attempts x poll_interval.
C13_SleepWithinBudget ==
  \A t \in AllTasks : tasks[t].slept <= MaxAttempts * poll_interval

\* C13: the time the poll loop sleeps in all never exceeds max_attempts x
\* poll_interval plus one more poll_interval for each poll answered with
\* status 429, so it never exceeds 2 x max_attempts x poll_interval.
C13_SleepWithinBackoffBudget ==
  \A t \in AllTasks :
    LET task == tasks[t]
    IN  /\ task.slept <= (MaxAttempts + task.rate_limited) * poll_interval
        /\ task.slept <= 2 * MaxAttempts * poll_interval

\* One poll answered 429 and the others pending: one interval over budget.
C13_Witness ==
  /\ tasks[1].pc = "done" /\ tasks[1].poll_state = "TIMED_OUT"
  /\ tasks[1].rate_limited = 1
  /\ tasks[1].pending_seen = MaxAttempts - 1
  /\ tasks[1].slept = (MaxAttempts + 1) * poll_interval

\* What a pass that neither returns nor is the last leaves, and the last.
GoesOnOrTimesOut(before, after) ==
  /\ after.attempt = before.attempt + 1
  /\ IF before.attempt + 1 < MaxAttempts
       THEN after.pc = "polling" /\ after.poll_state = "POLLING"
       ELSE /\ after.pc = "done" /\ after.poll_state = "TIMED_OUT"
            /\ after.text = <<>> /\ after.err = TimeoutMessage

\* C14: a poll answered with status 429 keeps the loop in POLLING, sleeps
\* twice poll_interval and uses up one attempt: with r such polls at most
\* max_attempts - r other polls are made, and max_attempts polls answered
\* 429 in a row end in TIMED_OUT.
C14_RateLimitedPoll ==
  /\ [](\A t \in AllTasks :
          LET task == tasks[t]
          IN  /\ task.rate_limited <= task.poll_calls
              /\ task.poll_calls - task.rate_limited
                    <= MaxAttempts - task.rate_limited
              /\ task.rate_limited = MaxAttempts =>
                    task.pc = "done" /\ task.poll_state = "TIMED_OUT")
  /\ [][ PollAttempt(1, TRUE, RateLimitedResponse)
         => /\ GoesOnOrTimesOut(tasks[1], tasks'[1])
            /\ tasks'[1].slept = tasks[1].slept + 2 * poll_interval
            /\ tasks'[1].poll_calls = tasks[1].poll_calls + 1 ]_vars

\* Every poll of the call was answered 429.
C14_Witness ==
  /\ tasks[1].pc = "done" /\ tasks[1].poll_state = "TIMED_OUT"
  /\ tasks[1].rate_limited = MaxAttempts
  /\ tasks[1].poll_calls = MaxAttempts
  /\ tasks[1].slept = 2 * MaxAttempts * poll_interval

\* C15: a poll attempt that fails with an exception (no answer, a status
\* that is not 2xx nor 429, an undecodable body) never ends the loop: the
\* loop stays in POLLING, sleeps poll_interval and goes to the next attempt,
\* a completed answer that comes later within the budget still gives
\* COMPLETED, and the loop ends without a terminal answer only when
\* max_attempts is used up.
C15_FailedPollGoesOn ==
  /\ [](\A t \in AllTasks :
          tasks[t].poll_state = "TIMED_OUT" =>
             tasks[t].attempt = MaxAttempts)
  /\ [][ /\ \A r \in FailingResponses :
              PollAttempt(1, TRUE, r)
              => /\ GoesOnOrTimesOut(tasks[1], tasks'[1])
                 /\ tasks'[1].slept = tasks[1].slept + poll_interval
         /\ \A p \in CompletedPayloads :
              ( /\ tasks[1].failed_seen > 0
                /\ PollAttempt(1, TRUE, PayloadResponse(p)) )
              => /\ tasks'[1].pc = "done"
                 /\ tasks'[1].poll_state = "COMPLETED"
                 /\ tasks'[1].err = None ]_vars

\* Two failed attempts, then the completed answer.
C15_Witness ==
  /\ tasks[1].pc = "done" /\ tasks[1].poll_state = "COMPLETED"
  /\ tasks[1].failed_seen = 2 /\ tasks[1].attempt = 3
  /\ tasks[1].slept = 2 * poll_interval
  /\ tasks[1].text = PlainText /\ tasks[1].err = None

(***************************************************************************)
(* Two calls of one session in flight together.                            *)
(***************************************************************************)

\* C16: when two queries of one session are in flight together and both
\* first responses carry a conversation id, then once both have completed
\* the tracker holds for the session the id of the response processed last,
\* whichever query was issued first (so it can differ from the id returned
\* to the query issued last); only clear_conversation takes the entry away.
C16_LastProcessedWins ==
  /\ [](\A t \in AllTasks, u \in AllTasks :
          ( /\ processed = <<u, t>>
            /\ tasks[t].pc = "done" /\ tasks[u].pc = "done"
            /\ tasks[t].session_id = tasks[u].session_id
            /\ tasks[t].conv \in ConvIds /\ tasks[u].conv \in ConvIds )
          => get_conversation_id(tasks[t].session_id)
               \in {tasks[t].conv, None})
  /\ [][\A s \in Sessions :
          (get_conversation_id(s) # None /\ get_conversation_id(s)' = None)
          => Clear(s)]_vars

\* Call 1 was issued first and processed last: call 2, issued last, was
\* given c2, and the tracker holds c1, the id call 1 was given.
C16_Witness ==
  /\ issued = <<1, 2>> /\ processed = <<2, 1>>
  /\ tasks[1].pc = "done" /\ tasks[2].pc = "done"
  /\ tasks[1].session_id = "s1" /\ tasks[2].session_id = "s1"
  /\ tasks[1].conv = T("c1") /\ tasks[2].conv = T("c2")
  /\ get_conversation_id("s1") = T("c1")

(***************************************************************************)
(* A deferred result.                                                      *)
(***************************************************************************)

TextResponse(t) ==
  [net |-> "ok", status_code |-> 200,
   json |-> ContentBody(<<TextItem(JStr(t))>>)]

\* C18: when the content text of the 2xx first response is not JSON,
\* query_genie returns that text, normalised (which leaves it as it is),
\* with no error and the conversation id of the caller; it issues no poll
\* and leaves the tracker as it was for every session.
C18_NonJsonText ==
  [][\A t \in RawTexts :
       (JsonLoads(t) = Undecodable /\ Respond(1, TextResponse(t))) =>
         /\ tasks'[1].pc = "done" /\ ~tasks'[1].fault
         /\ tasks'[1].text = _format_response(JStr(t))
         /\ tasks'[1].text = t
         /\ tasks'[1].err = None
         /\ tasks'[1].conv = tasks[1].conversation_id
         /\ tasks'[1].requests = 1 /\ tasks'[1].poll_calls = 0
         /\ tasks'[1].poll_state = "NONE"
         /\ conversation_ids' = conversation_ids]_vars

\* The caller passed c1, the tracker held c2 for the session, and the
\* content text was JSON cut short: it came back as it was, with c1.
C18_Witness ==
  /\ tasks[1].pc = "done" /\ tasks[1].conversation_id = T("c1")
  /\ tasks[1].text = <<"{", "Total">> /\ tasks[1].err = None
  /\ tasks[1].conv = T("c1")
  /\ tasks[1].requests = 1 /\ tasks[1].poll_calls = 0
  /\ get_conversation_id(tasks[1].session_id) = T("c2")

\* Content texts of an unexpected shape: JSON that is no object, and an
\* object whose status is no string.
MalformedTexts ==
  { <<"[", "]">>, T("42"), T("null"),
    JsonDumps(InitialPayload(JStr(T("c1")), JStr(T("m1")), JNull, Absent)) }

\* C19: a 2xx first response whose content text has an unexpected shape
\* (JSON that is no object, an object whose status is no string) is handled
\* by falling back to the raw text: query_genie returns that text,
\* normalised, with no error.
C19_FallsBackToRawText ==
  [][\A t \in MalformedTexts :
       Respond(1, TextResponse(t)) =>
         /\ tasks'[1].pc = "done"
         /\ tasks'[1].text = _format_response(JStr(t))
         /\ tasks'[1].err = None]_vars

(***************************************************************************)
(* The conversation id of the outgoing request.                            *)
(***************************************************************************)

\* C20 as stated: when a query is issued for a session whose tracker entry
\* holds the id c and the caller passes no conversation id, the request of
\* the query tool carries conversation_id = c.
C20_RequestCarriesTrackedId ==
  [][(get_conversation_id("s1") # None /\ Start(1, "s1", None, TRUE)) =>
       tasks'[1].sent_conversation_id = get_conversation_id("s1")]_vars

\* C20: query_genie does not read the tracker: the request of the query
\* tool carries the conversation id the caller passed when that is not
\* empty, and no conversation_id otherwise, whatever the tracker holds for
\* the session; issuing the request leaves the tracker as it was.
C20_RequestCarriesCallerId ==
  [][\A c \in CallerConvIds :
       Start(1, "s1", c, TRUE) =>
         /\ tasks'[1].requests = 1
         /\ tasks'[1].sent_conversation_id =
              IF c \in {None, <<>>} THEN None ELSE c
         /\ conversation_ids' = conversation_ids]_vars

\* The tracker holds c2 for s1, and the request of a call of s1 whose
\* caller passed no id is out with no conversation_id.
C20_Witness ==
  /\ get_conversation_id("s1") = T("c2")
  /\ tasks[1].pc = "awaiting" /\ tasks[1].session_id = "s1"
  /\ tasks[1].conversation_id = None /\ tasks[1].requests = 1
  /\ tasks[1].sent_conversation_id = None

(***************************************************************************)
(* The error of a deferred query that did not complete.                    *)
(***************************************************************************)

\* C21: whenever the poll loop of a deferred query ends in a state other
\* than COMPLETED (FAILED from an error of the service or from a status of
\* error or failed, EXPIRED, TIMED_OUT), query_genie returns an error that
\* is present and not empty; it never reports such an end as empty text
\* with no error.
C21_ErrorWhenNotCompleted ==
  \A t \in AllTasks :
    (tasks[t].pc = "done"
       /\ tasks[t].poll_state \in {"FAILED", "EXPIRED", "TIMED_OUT"})
    => /\ tasks[t].err \notin {None, <<>>}
       /\ ~(tasks[t].text = <<>> /\ tasks[t].err = None)

(***************************************************************************)
(* The sessions are apart in the tracker.                                  *)
(***************************************************************************)

\* The entry of a session in conversation_ids: <<id>>, or <<>> without one.
Entry(s) ==
  IF s \in DOMAIN conversation_ids THEN <<conversation_ids[s]>> ELSE <<>>

\* C22: the sessions are isolated in the tracker: under any interleaving of
\* queries and clears, an operation for session A (a step of a query_genie
\* call of A, its polls included, or clear_conversation(A)) never adds,
\* changes or removes the entry of a session B other than A.
C22_SessionsIsolated ==
  [][/\ \A t \in AllTasks, b \in Sessions :
          (tasks'[t] # tasks[t] /\ tasks'[t].pc # "idle"
             /\ b # tasks'[t].session_id)
          => Entry(b)' = Entry(b)
     /\ \A a \in Sessions, b \in Sessions :
          (Clear(a) /\ b # a) => Entry(b)' = Entry(b)
     /\ \A b \in Sessions :
          Entry(b)' # Entry(b) =>
            \/ Clear(b)
            \/ \E t \in AllTasks :
                 /\ tasks[t].session_id = b
                 /\ tasks[t].pc = "awaiting" /\ tasks'[t].pc # "awaiting"]_vars

\* The entry of s2, written first, is still c2 after a call of s1 stored
\* c1 and polled to its end and s1 was cleared.
C22_Witness ==
  /\ processed = <<2, 1>>
  /\ tasks[2].pc = "done" /\ tasks[2].session_id = "s2"
  /\ tasks[2].conv = T("c2")
  /\ tasks[1].pc = "done" /\ tasks[1].session_id = "s1"
  /\ tasks[1].conv = T("c1") /\ tasks[1].poll_calls >= 1
  /\ Entry("s1") = <<>> /\ Entry("s2") = <<T("c2")>>

====
